---------------------------- MODULE Spec2Model ----------------------------
(***************************************************************************)
(* A model of the DocParse extraction core (src/backend/docparse.py):      *)
(* the result model, the TXT and DOCX segmentation heuristics, the three   *)
(* format strategies and the dispatching engine.                           *)
(*                                                                         *)
(* A Python str is a sequence of one-character strings, Optional[T] is the *)
(* empty sequence (None) or a one-element sequence <<v>>, and one call of  *)
(* an operation is one action: its inputs are drawn with \E and its whole  *)
(* outcome (the returned ExtractionResult, or the exception that escapes)  *)
(* is written to the state.  The value of a boolean query                  *)
(* (is_supported_file, check_rate_limit) is written to answer.             *)
(*                                                                         *)
(* The rate limiter of the upload route (src/backend/app.py:84-130) is a   *)
(* second state machine, RateSpec: request_counts is the module's table of *)
(* request times per client, now the wall clock (taken as monotone),       *)
(* client_ip the argument of the call just made, and accepted the history  *)
(* of the times at which each client's calls returned True (a history      *)
(* variable the code does not keep).                                       *)
(***************************************************************************)
EXTENDS Integers, Sequences, FiniteSets, TLC

VARIABLES call, result, trace, answer, request_counts, now, client_ip, accepted

vars == <<call, result, trace, answer, request_counts, now, client_ip, accepted>>

\* the state of the extraction core, and the state of the rate limiter of
\* the upload route (src/backend/app.py)
doc_vars == <<call, result, trace>>

rate_vars == <<request_counts, now, client_ip, accepted>>

(***************************************************************************)
(* Bounds of the model.                                                    *)
(***************************************************************************)
\* longest TXT content explored
MaxLen == 5
\* longest content explored together with a failing environment
ShortLen == 2
\* largest max_pages option explored
MaxCap == 2
\* most pages of a PDF document
MaxPdfPages == 2
\* most paragraphs of a DOCX document
MaxParas == 4
\* the fixed window of _split_into_pages: 3000 characters in the source
\* (docparse.py:315-318), scaled down so that contents longer than one,
\* two and three windows are explored
PageSize == 2
\* RATE_LIMIT of app.py:85: 10 requests in the source, scaled down so that
\* the limit is reached, passed and reached again
RATE_LIMIT == 2
\* timedelta(minutes=1) of check_rate_limit: 60 seconds in the source,
\* scaled down to clock ticks
Minute == 2
\* the last instant of the clock
MaxTime == 4

(***************************************************************************)
(* Optional values and small helpers.                                      *)
(***************************************************************************)
None == <<>>

Some(v) == <<v>>

Min(a, b) == IF a <= b THEN a ELSE b

\* all sequences over S of length at most n
SeqsUpTo(S, n) == UNION {[1..k -> S] : k \in 0..n}

(***************************************************************************)
(* Python str operations.                                                  *)
(***************************************************************************)
FF == "\f"

NL == "\n"

\* the characters the explored texts are made of
Chars == {"a", " ", NL, FF}

\* str.isspace on one character
IsSpace(c) == c \in {" ", NL, FF, "\t", "\r"}

RECURSIVE LStrip(_)
LStrip(s) ==
    IF s = <<>> THEN s
    ELSE IF IsSpace(Head(s)) THEN LStrip(Tail(s)) ELSE s

RECURSIVE RStrip(_)
RStrip(s) ==
    IF s = <<>> THEN s
    ELSE IF IsSpace(s[Len(s)]) THEN RStrip(SubSeq(s, 1, Len(s) - 1)) ELSE s

\* str.strip() with no argument
Strip(s) == RStrip(LStrip(s))

\* str.split() with no argument: the maximal runs of non-whitespace.
\* cur is the word being read, s what is left to read.
RECURSIVE SplitWordsFrom(_, _)
SplitWordsFrom(s, cur) ==
    IF s = <<>> THEN (IF cur = <<>> THEN <<>> ELSE <<cur>>)
    ELSE IF IsSpace(Head(s))
         THEN (IF cur = <<>> THEN <<>> ELSE <<cur>>) \o SplitWordsFrom(Tail(s), <<>>)
         ELSE SplitWordsFrom(Tail(s), Append(cur, Head(s)))

SplitWords(s) == SplitWordsFrom(s, <<>>)

\* str.find(sep) from position i (1-based); 0 when sep does not occur
RECURSIVE FindFrom(_, _, _)
FindFrom(s, sep, i) ==
    IF i + Len(sep) - 1 > Len(s) THEN 0
    ELSE IF SubSeq(s, i, i + Len(sep) - 1) = sep THEN i
    ELSE FindFrom(s, sep, i + 1)

\* str.split(sep): cut at the leftmost occurrences of sep, left to right
RECURSIVE Split(_, _)
Split(s, sep) ==
    LET i == FindFrom(s, sep, 1)
    IN IF i = 0 THEN <<s>>
       ELSE <<SubSeq(s, 1, i - 1)>> \o Split(SubSeq(s, i + Len(sep), Len(s)), sep)

\* sep.join(parts)
RECURSIVE Join(_, _)
Join(parts, sep) ==
    IF parts = <<>> THEN <<>>
    ELSE IF Len(parts) = 1 THEN parts[1]
    ELSE parts[1] \o sep \o Join(Tail(parts), sep)

\* the truth value of page.strip()
NonBlank(s) == Strip(s) # <<>>

(***************************************************************************)
(* The result model (docparse.py:47-109).                                  *)
(***************************************************************************)
\* ExtractionMethod values and the tag of a failed extraction
PDFPLUMBER == "pdfplumber"

PYMUPDF == "pymupdf"

PLAIN_TEXT == "plain_text"

PYTHON_DOCX == "python_docx"

FAILED == "failed"

\* DocumentType values
PDF == <<"p", "d", "f">>

TXT == <<"t", "x", "t">>

DOCX == <<"d", "o", "c", "x">>

DocumentType == {PDF, TXT, DOCX}

ProcessingOptions(max_pages, extract_tables) ==
    [max_pages |-> max_pages, extract_tables |-> extract_tables]

PageContent(page_number, text, word_count, character_count, tables_count, tables) ==
    [page_number |-> page_number, text |-> text, word_count |-> word_count,
     character_count |-> character_count, tables_count |-> tables_count,
     tables |-> tables]

DocumentMetadata(filename, file_size, total_pages, pages_processed, extraction_method, processing_time, document_type) ==
    [filename |-> filename, file_size |-> file_size, total_pages |-> total_pages,
     pages_processed |-> pages_processed, extraction_timestamp |-> "now",
     extraction_method |-> extraction_method, processing_time |-> processing_time,
     document_type |-> document_type]

\* a returned ExtractionResult; status tells a return from an escaped exception
ExtractionResult(metadata, pages, success, error_message) ==
    [status |-> "returned", metadata |-> metadata, pages |-> pages,
     success |-> success, error_message |-> error_message]

\* the call ended with an exception that no handler caught
Raised(e) ==
    [status |-> "raised",
     metadata |-> DocumentMetadata(<<>>, 0, 0, 0, "", "none", <<>>),
     pages |-> <<>>, success |-> FALSE, error_message |-> Some(e)]

\* no call has been made yet
NoResult ==
    [status |-> "none",
     metadata |-> DocumentMetadata(<<>>, 0, 0, 0, "", "none", <<>>),
     pages |-> <<>>, success |-> FALSE, error_message |-> None]

(***************************************************************************)
(* The file system as one call sees it.  The call touches the path at      *)
(* numbered points; another actor may remove the file before point         *)
(* env.goneAt (0: it never existed, 7: it is never removed).               *)
(*   0 engine exists()            1 open by the strategy (primary backend) *)
(*                                  or the engine's stat() of an           *)
(*                                  unsupported file                       *)
(*   2 stat() on the success path 3 open by the PDF fallback               *)
(*   4 stat() of the PDF fallback 5 exists() in _create_error_metadata     *)
(*   6 stat() in _create_error_metadata                                    *)
(* env.err1 is the error the (primary) library raises on this file, if     *)
(* any; env.err2 the error the PDF fallback library raises, if any.        *)
(***************************************************************************)
Present(env, point) == point < env.goneAt

ENOENT == "No such file or directory"

\* Path.stat().st_size: one byte per character of the raw content
StSize(file) == Len(file.content)

\* Path.name: the stem "report" followed by the suffix
Name(file) == <<"report">> \o file.suffix

\* str.lower on one character
LowerChar(c) ==
    CASE c = "P" -> "p" [] c = "D" -> "d" [] c = "F" -> "f" [] c = "T" -> "t"
      [] c = "X" -> "x" [] c = "O" -> "o" [] c = "C" -> "c" [] c = "Y" -> "y"
      [] c = "Z" -> "z" [] OTHER -> c

Lower(s) == [i \in 1..Len(s) |-> LowerChar(s[i])]

\* str.lstrip('.')
RECURSIVE LStripDot(_)
LStripDot(s) ==
    IF s = <<>> THEN s
    ELSE IF Head(s) = "." THEN LStripDot(Tail(s)) ELSE s

\* file_path.suffix.lower().lstrip('.')
Extension(file) == LStripDot(Lower(file.suffix))

(***************************************************************************)
(* Common steps of the strategies.                                         *)
(***************************************************************************)
\* PagesToProcess with the cap forgotten: every identified page is processed
PagesToProcess_IgnoresCap(options, total_pages) == total_pages

\* min(options.max_pages or total_pages, total_pages): None and 0 are falsy
PagesToProcess(options, total_pages) ==
    Min(IF options.max_pages = None \/ options.max_pages[1] = 0
        THEN total_pages ELSE options.max_pages[1],
        total_pages)

\* what a strategy hands back: the result, the chunks its segmentation
\* returned (None when it did not run) and the steps that ran, in order
Outcome(res, pages_text, invoked) ==
    [res |-> res, pages_text |-> pages_text, invoked |-> invoked]

\* _create_error_metadata: exists() at point 5 guards stat() at point 6
CreateErrorMetadataRaises(env) == Present(env, 5) /\ ~Present(env, 6)

\* CreateErrorMetadata with the method left at a strategy's tag
CreateErrorMetadata_KeepsTag(file, env, document_type) ==
    DocumentMetadata(Name(file), IF Present(env, 5) THEN StSize(file) ELSE 0,
                     0, 0, PLAIN_TEXT, "measured", document_type)

CreateErrorMetadata(file, env, document_type) ==
    DocumentMetadata(Name(file), IF Present(env, 5) THEN StSize(file) ELSE 0,
                     0, 0, FAILED, "measured", document_type)

\* FailureResult with success left at its default, True
FailureResult_DefaultSuccess(file, env, document_type, prefix, e) ==
    IF CreateErrorMetadataRaises(env) THEN Raised(ENOENT)
    ELSE ExtractionResult(DocumentMetadata(Name(file),
                                           IF Present(env, 5) THEN StSize(file) ELSE 0,
                                           0, 0, FAILED, "measured", document_type),
                          <<>>, TRUE, Some(<<prefix, e>>))

\* the except-branch of a strategy: a failure result, unless building its
\* metadata raises in turn
FailureResult(file, env, document_type, prefix, e) ==
    IF CreateErrorMetadataRaises(env) THEN Raised(ENOENT)
    ELSE ExtractionResult(CreateErrorMetadata(file, env, document_type),
                          <<>>, FALSE, Some(<<prefix, e>>))

(***************************************************************************)
(* TXT strategy (docparse.py:243-335).                                     *)
(***************************************************************************)
NL3 == <<NL, NL, NL>>

\* WindowsFrom with blank windows dropped, as the other two splits drop them
RECURSIVE WindowsFrom_DropBlank(_, _)
WindowsFrom_DropBlank(content, i) ==
    IF i >= Len(content) THEN <<>>
    ELSE LET w == SubSeq(content, i + 1, Min(i + PageSize, Len(content)))
         IN (IF NonBlank(w) THEN <<w>> ELSE <<>>)
            \o WindowsFrom_DropBlank(content, i + PageSize)

\* for i in range(i, len(content), PageSize): content[i:i+PageSize] (0-based i)
RECURSIVE WindowsFrom(_, _)
WindowsFrom(content, i) ==
    IF i >= Len(content) THEN <<>>
    ELSE <<SubSeq(content, i + 1, Min(i + PageSize, Len(content)))>>
         \o WindowsFrom(content, i + PageSize)

\* which return statement of _split_into_pages is taken
SplitBranch(content) ==
    IF Len(Split(content, <<FF>>)) > 1 THEN "form_feed"
    ELSE IF Len(Split(content, NL3)) > 1 THEN "triple_newline"
    ELSE IF Len(content) > PageSize THEN "fixed_window"
    ELSE "whole"

\* SplitIntoPages with the blank pieces of the two splits kept
SplitIntoPages_KeepBlank(content) ==
    LET ff == Split(content, <<FF>>)
        nl == Split(content, NL3)
    IN IF Len(ff) > 1 THEN ff
       ELSE IF Len(nl) > 1 THEN nl
       ELSE IF Len(content) > PageSize THEN WindowsFrom(content, 0)
       ELSE IF NonBlank(content) THEN <<content>> ELSE << <<>> >>

\* TXTProcessor._split_into_pages
SplitIntoPages(content) ==
    LET ff == Split(content, <<FF>>)
        nl == Split(content, NL3)
    IN IF Len(ff) > 1 THEN SelectSeq(ff, NonBlank)
       ELSE IF Len(nl) > 1 THEN SelectSeq(nl, NonBlank)
       ELSE IF Len(content) > PageSize THEN WindowsFrom(content, 0)
       ELSE IF NonBlank(content) THEN <<content>> ELSE << <<>> >>

\* TXTPage numbered from the 0-based loop index
TXTPage_ZeroBased(page_number, chunk) ==
    LET text == Strip(chunk)
    IN PageContent(page_number - 1, text,
                   IF text # <<>> THEN Len(SplitWords(text)) ELSE 0,
                   Len(text), 0, <<>>)

\* the PageContent built in the loop of TXTProcessor.extract_text
TXTPage(page_number, chunk) ==
    LET text == Strip(chunk)
    IN PageContent(page_number, text,
                   IF text # <<>> THEN Len(SplitWords(text)) ELSE 0,
                   Len(text), 0, <<>>)

\* TXTProcessor.extract_text
TXT_extract_text(file, options, env) ==
    LET readErr == IF ~Present(env, 1) THEN Some(ENOENT) ELSE env.err1
        pages_text == SplitIntoPages(file.content)
        total_pages == Len(pages_text)
        pages_to_process == PagesToProcess(options, total_pages)
        pages == [i \in 1..pages_to_process |-> TXTPage(i, pages_text[i])]
        e == IF readErr # None THEN readErr
             ELSE IF ~Present(env, 2) THEN Some(ENOENT) ELSE None
    IN IF e = None
       THEN Outcome(ExtractionResult(
                        DocumentMetadata(Name(file), StSize(file), total_pages,
                                         pages_to_process, PLAIN_TEXT, "measured", TXT),
                        pages, TRUE, None),
                    Some(pages_text), <<"txt">>)
       ELSE Outcome(FailureResult(file, env, TXT, "TXT extraction failed: ", e[1]),
                    IF readErr = None THEN Some(pages_text) ELSE None, <<"txt">>)

(***************************************************************************)
(* PDF strategy (docparse.py:126-240).  A PDF document is the sequence of  *)
(* its pages; a page holds the text the backends find on it (None when     *)
(* pdfplumber's extract_text() returns None) and the tables pdfplumber     *)
(* detects on it.                                                          *)
(***************************************************************************)
\* PdfplumberPage counting the characters of the untrimmed text
PdfplumberPage_RawCount(page_number, page, options) ==
    LET text == IF page.text = None THEN <<>> ELSE page.text[1]
        tables == IF options.extract_tables THEN page.tables ELSE <<>>
    IN PageContent(page_number, Strip(text),
                   IF Strip(text) # <<>> THEN Len(SplitWords(text)) ELSE 0,
                   Len(text), Len(tables), tables)

\* the PageContent built in the loop of _extract_with_pdfplumber
PdfplumberPage(page_number, page, options) ==
    LET text == IF page.text = None THEN <<>> ELSE page.text[1]
        tables == IF options.extract_tables THEN page.tables ELSE <<>>
    IN PageContent(page_number, Strip(text),
                   IF Strip(text) # <<>> THEN Len(SplitWords(text)) ELSE 0,
                   Len(Strip(text)), Len(tables), tables)

\* PymupdfPage carrying the tables detected on the page
PymupdfPage_WithTables(page_number, page) ==
    LET text == IF page.text = None THEN <<>> ELSE page.text[1]
    IN PageContent(page_number, Strip(text),
                   IF Strip(text) # <<>> THEN Len(SplitWords(text)) ELSE 0,
                   Len(Strip(text)), Len(page.tables), page.tables)

\* the PageContent built in the loop of _extract_with_pymupdf
PymupdfPage(page_number, page) ==
    LET text == IF page.text = None THEN <<>> ELSE page.text[1]
    IN PageContent(page_number, Strip(text),
                   IF Strip(text) # <<>> THEN Len(SplitWords(text)) ELSE 0,
                   Len(Strip(text)), 0, <<>>)

\* the exception _extract_with_pdfplumber raises, None when it returns
PdfplumberError(env) ==
    IF ~Present(env, 1) THEN Some(ENOENT)
    ELSE IF env.err1 # None THEN env.err1
    ELSE IF ~Present(env, 2) THEN Some(ENOENT) ELSE None

\* PDFProcessor._extract_with_pdfplumber, when it returns
PDF_extract_with_pdfplumber(file, options) ==
    LET total_pages == Len(file.pdf)
        pages_to_process == PagesToProcess(options, total_pages)
        pages == [i \in 1..pages_to_process |-> PdfplumberPage(i, file.pdf[i], options)]
    IN ExtractionResult(
           DocumentMetadata(Name(file), StSize(file), total_pages, pages_to_process,
                            PDFPLUMBER, "measured", PDF),
           pages, TRUE, None)

\* the exception _extract_with_pymupdf raises, None when it returns
PymupdfError(env) ==
    IF ~Present(env, 3) THEN Some(ENOENT)
    ELSE IF env.err2 # None THEN env.err2
    ELSE IF ~Present(env, 4) THEN Some(ENOENT) ELSE None

\* PDFProcessor._extract_with_pymupdf, when it returns
PDF_extract_with_pymupdf(file, options) ==
    LET total_pages == Len(file.pdf)
        pages_to_process == PagesToProcess(options, total_pages)
        pages == [i \in 1..pages_to_process |-> PymupdfPage(i, file.pdf[i])]
    IN ExtractionResult(
           DocumentMetadata(Name(file), StSize(file), total_pages, pages_to_process,
                            PYMUPDF, "measured", PDF),
           pages, TRUE, None)

\* PDFProcessor.extract_text
PDF_extract_text(file, options, env) ==
    LET e == PdfplumberError(env)
        fallback_error == PymupdfError(env)
    IN IF e = None
       THEN Outcome(PDF_extract_with_pdfplumber(file, options), None,
                    <<"pdf", PDFPLUMBER>>)
       ELSE IF fallback_error = None
       THEN Outcome(PDF_extract_with_pymupdf(file, options), None,
                    <<"pdf", PDFPLUMBER, PYMUPDF>>)
       ELSE Outcome(FailureResult(file, env, PDF, "PDF extraction failed: ", e[1]),
                    None, <<"pdf", PDFPLUMBER, PYMUPDF>>)

(***************************************************************************)
(* DOCX strategy (docparse.py:338-431).  A DOCX document is the sequence   *)
(* of its paragraphs' texts.                                               *)
(***************************************************************************)
\* GroupLoop that flushes at every blank paragraph, pending page or not
RECURSIVE GroupLoop_FlushAtEveryBlank(_, _, _)
GroupLoop_FlushAtEveryBlank(paragraphs, pages, current_page) ==
    IF paragraphs = <<>>
    THEN (IF current_page # <<>> THEN Append(pages, Join(current_page, <<NL>>))
          ELSE pages)
    ELSE LET text == Strip(Head(paragraphs))
         IN IF text # <<>>
            THEN GroupLoop_FlushAtEveryBlank(Tail(paragraphs), pages,
                                             Append(current_page, text))
            ELSE GroupLoop_FlushAtEveryBlank(Tail(paragraphs),
                                             Append(pages, Join(current_page, <<NL>>)),
                                             <<>>)

\* the for loop of _group_into_pages over the paragraphs left, then the
\* flush of the remaining content
RECURSIVE GroupLoop(_, _, _)
GroupLoop(paragraphs, pages, current_page) ==
    IF paragraphs = <<>>
    THEN (IF current_page # <<>> THEN Append(pages, Join(current_page, <<NL>>))
          ELSE pages)
    ELSE LET text == Strip(Head(paragraphs))
         IN IF text # <<>>
            THEN GroupLoop(Tail(paragraphs), pages, Append(current_page, text))
            ELSE IF current_page # <<>>
            THEN GroupLoop(Tail(paragraphs),
                           Append(pages, Join(current_page, <<NL>>)), <<>>)
            ELSE GroupLoop(Tail(paragraphs), pages, current_page)

\* DOCXProcessor._group_into_pages
GroupIntoPages(paragraphs) ==
    LET looped == GroupLoop(paragraphs, <<>>, <<>>)
        all_text == Join(SelectSeq(paragraphs, NonBlank), <<NL>>)
        pages == IF looped = <<>> /\ paragraphs # <<>>
                 THEN (IF all_text # <<>> THEN <<all_text>> ELSE << <<>> >>)
                 ELSE looped
    IN IF pages # <<>> THEN pages ELSE << <<>> >>

\* the PageContent built in the loop of DOCXProcessor.extract_text
DOCXPage(page_number, text) ==
    PageContent(page_number, text,
                IF text # <<>> THEN Len(SplitWords(text)) ELSE 0,
                Len(text), 0, <<>>)

\* DOCXProcessor.extract_text
DOCX_extract_text(file, options, env) ==
    LET openErr == IF ~Present(env, 1) THEN Some(ENOENT) ELSE env.err1
        pages_text == GroupIntoPages(file.paras)
        total_pages == Len(pages_text)
        pages_to_process == PagesToProcess(options, total_pages)
        pages == [i \in 1..pages_to_process |-> DOCXPage(i, pages_text[i])]
        e == IF openErr # None THEN openErr
             ELSE IF ~Present(env, 2) THEN Some(ENOENT) ELSE None
    IN IF e = None
       THEN Outcome(ExtractionResult(
                        DocumentMetadata(Name(file), StSize(file), total_pages,
                                         pages_to_process, PYTHON_DOCX, "measured", DOCX),
                        pages, TRUE, None),
                    Some(pages_text), <<"docx">>)
       ELSE Outcome(FailureResult(file, env, DOCX, "DOCX extraction failed: ", e[1]),
                    IF openErr = None THEN Some(pages_text) ELSE None, <<"docx">>)

(***************************************************************************)
(* The engine (docparse.py:434-517).                                       *)
(***************************************************************************)
\* Dispatch that hands a failed document to the plain-text strategy as well
Dispatch_RetryAsText(doc_type, file, options, env) ==
    LET first == CASE doc_type = PDF -> PDF_extract_text(file, options, env)
                   [] doc_type = TXT -> TXT_extract_text(file, options, env)
                   [] doc_type = DOCX -> DOCX_extract_text(file, options, env)
        second == TXT_extract_text(file, options, env)
    IN IF first.res.status = "returned" /\ ~first.res.success /\ doc_type # TXT
       THEN Outcome(second.res, second.pages_text, first.invoked \o second.invoked)
       ELSE first

\* self.processors[doc_type].extract_text(file_path, options)
Dispatch(doc_type, file, options, env) ==
    CASE doc_type = PDF -> PDF_extract_text(file, options, env)
      [] doc_type = TXT -> TXT_extract_text(file, options, env)
      [] doc_type = DOCX -> DOCX_extract_text(file, options, env)

\* NotFoundResult stamped with the extension of the missing path
NotFoundResult_Typed(file) ==
    ExtractionResult(DocumentMetadata(Name(file), 0, 0, 0, FAILED, "0.0", Extension(file)),
                     <<>>, FALSE, Some(<<"File not found">>))

\* the result of the "File not found" return
NotFoundResult(file) ==
    ExtractionResult(DocumentMetadata(Name(file), 0, 0, 0, FAILED, "0.0",
                                      <<"u", "n", "k", "n", "o", "w", "n">>),
                     <<>>, FALSE, Some(<<"File not found">>))

\* the result of the "Unsupported file type" return; its stat() raises when
\* the file is gone by then
UnsupportedResult(file, env, extension) ==
    IF ~Present(env, 1) THEN Raised(ENOENT)
    ELSE ExtractionResult(DocumentMetadata(Name(file), StSize(file), 0, 0, FAILED,
                                           "0.0", extension),
                          <<>>, FALSE,
                          Some(<<"Unsupported file type: ", extension>>))

\* DocParseEngine.extract_text
DocParseEngine_extract_text(file, options, env) ==
    LET extension == Extension(file)
    IN IF ~Present(env, 0) THEN Outcome(NotFoundResult(file), None, <<>>)
       ELSE IF extension \notin DocumentType
       THEN Outcome(UnsupportedResult(file, env, extension), None, <<>>)
       ELSE Dispatch(extension, file, options, env)

\* PDFProcessor.supports_file_type
PDF_supports_file_type(file) == Lower(file.suffix) = <<".", "p", "d", "f">>

\* TXTProcessor.supports_file_type
TXT_supports_file_type(file) == Lower(file.suffix) = <<".", "t", "x", "t">>

\* DOCXProcessor.supports_file_type
DOCX_supports_file_type(file) == Lower(file.suffix) = <<".", "d", "o", "c", "x">>

\* self.processors[doc_type].supports_file_type(file_path)
SupportsFileType(doc_type, file) ==
    CASE doc_type = PDF -> PDF_supports_file_type(file)
      [] doc_type = TXT -> TXT_supports_file_type(file)
      [] doc_type = DOCX -> DOCX_supports_file_type(file)

\* is_supported_file that looks the written suffix up, letter case kept
DocParseEngine_is_supported_file_CaseKept(file) ==
    LStripDot(file.suffix) \in DocumentType

\* DocParseEngine.is_supported_file: DocumentType(extension) raises
\* ValueError for a value that is no member, which yields False
DocParseEngine_is_supported_file(file) ==
    LET extension == Extension(file)
    IN IF extension \notin DocumentType THEN FALSE
       ELSE SupportsFileType(extension, file)

(***************************************************************************)
(* The inputs explored.                                                    *)
(***************************************************************************)
Dot(ext) == <<".">> \o ext

File(suffix, content, pdf, paras) ==
    [suffix |-> suffix, content |-> content, pdf |-> pdf, paras |-> paras]

TxtSuffixes == {Dot(TXT), Dot(<<"T", "X", "T">>)}

PdfSuffixes == {Dot(PDF), Dot(<<"P", "d", "F">>)}

DocxSuffixes == {Dot(DOCX), Dot(<<"D", "O", "C", "X">>)}

OtherSuffixes == {Dot(<<"x", "y", "z">>), Dot(<<"X", "Y", "Z">>), <<>>}

TxtFiles == {File(sfx, c, <<>>, <<>>) : sfx \in TxtSuffixes, c \in SeqsUpTo(Chars, MaxLen)}

\* the texts a PDF page may carry
PdfTexts ==
    {None, Some(<<>>), Some(<<"a">>), Some(<<" ", "a", NL>>),
     Some(<<"a", " ", "a">>), Some(<<" ", NL>>)}

\* one detected table: one row of one cell
Table1 == << <<"c">> >>

PdfPages == [text : PdfTexts, tables : {<<>>, <<Table1>>}]

\* the raw bytes of a PDF or DOCX file are not interpreted: one stands for them
PdfFiles == {File(sfx, <<"%">>, d, <<>>) : sfx \in PdfSuffixes, d \in SeqsUpTo(PdfPages, MaxPdfPages)}

\* the texts a DOCX paragraph may carry
ParaTexts == {<<>>, <<" ">>, <<"a">>, <<" ", "a", NL>>}

DocxFiles == {File(sfx, <<"P">>, <<>>, ps) : sfx \in DocxSuffixes, ps \in SeqsUpTo(ParaTexts, MaxParas)}

OtherFiles == {File(sfx, c, <<>>, <<>>) : sfx \in OtherSuffixes, c \in SeqsUpTo(Chars, ShortLen)}

Caps == {None} \cup {Some(n) : n \in 0..MaxCap}

\* the file stays, and no library raises
OkEnv == [goneAt |-> 7, err1 |-> None, err2 |-> None]

Envs(errs2) ==
    [goneAt : 0..7, err1 : {None, Some("primary error")}, err2 : {None} \cup errs2]

\* the suffixes is_supported_file is asked about: those of the files above
\* and near misses of the registered ones
QuerySuffixes ==
    TxtSuffixes \cup PdfSuffixes \cup DocxSuffixes \cup OtherSuffixes \cup
    {Dot(<<"p", "d">>), Dot(<<"p", "d", "f", "x">>), Dot(<<"d", "o", "c">>),
     Dot(<<"T", "x", "t">>), Dot(<<"t", "x", "t", " ">>)}

QueryFiles == {File(sfx, <<>>, <<>>, <<>>) : sfx \in QuerySuffixes}

\* failing environments and upper-case suffixes are explored on the short
\* inputs only
IsShort(file) ==
    Len(file.content) <= ShortLen /\ Len(file.pdf) <= 1 /\ Len(file.paras) <= 1

Explored(file, env) ==
    (env = OkEnv /\ file.suffix = Lower(file.suffix)) \/ IsShort(file)

(***************************************************************************)
(* The state machine: each action is one call, of the engine or of a      *)
(* strategy directly, made by a caller that then discards the result.     *)
(***************************************************************************)
Call(op, file, options, env) ==
    [op |-> op, file |-> file, options |-> options, env |-> env]

\* the clients of the upload route
ClientIps == {"10.0.0.1", "10.0.0.2"}

\* the value a boolean query returned, and which query it was
Answer(by, value) == [by |-> by, value |-> value]

NoAnswer == Answer("none", FALSE)

NoCall == Call("none", File(<<>>, <<>>, <<>>, <<>>), ProcessingOptions(None, TRUE), OkEnv)

Init ==
    /\ call = NoCall
    /\ result = NoResult
    /\ trace = [pages_text |-> None, invoked |-> <<>>]
    /\ answer = NoAnswer
    /\ request_counts = [ip \in ClientIps |-> <<>>]
    /\ now = 0
    /\ client_ip = ""
    /\ accepted = [ip \in ClientIps |-> <<>>]

\* no call is in progress and no result is pending
Idle == call.op = "none"

\* a call ends with its outcome
Returns(op, file, options, env, out) ==
    /\ call' = Call(op, file, options, env)
    /\ result' = out.res
    /\ trace' = [pages_text |-> out.pages_text, invoked |-> out.invoked]
    /\ answer' = NoAnswer
    /\ UNCHANGED rate_vars

EngineExtractTxt ==
    /\ Idle
    /\ \E file \in TxtFiles, cap \in Caps, env \in Envs({}) :
        /\ Explored(file, env)
        /\ Returns("engine", file, ProcessingOptions(cap, TRUE), env,
                   DocParseEngine_extract_text(file, ProcessingOptions(cap, TRUE), env))

EngineExtractPdf ==
    /\ Idle
    /\ \E file \in PdfFiles, cap \in Caps, extract_tables \in BOOLEAN,
       env \in Envs({Some("fallback error")}) :
        /\ Explored(file, env)
        /\ Returns("engine", file, ProcessingOptions(cap, extract_tables), env,
                   DocParseEngine_extract_text(file, ProcessingOptions(cap, extract_tables), env))

EngineExtractDocx ==
    /\ Idle
    /\ \E file \in DocxFiles, cap \in Caps, env \in Envs({}) :
        /\ Explored(file, env)
        /\ Returns("engine", file, ProcessingOptions(cap, TRUE), env,
                   DocParseEngine_extract_text(file, ProcessingOptions(cap, TRUE), env))

EngineExtractOther ==
    /\ Idle
    /\ \E file \in OtherFiles, cap \in Caps, env \in Envs({}) :
        Returns("engine", file, ProcessingOptions(cap, TRUE), env,
                DocParseEngine_extract_text(file, ProcessingOptions(cap, TRUE), env))

\* a strategy called directly, as its class allows
TxtExtract ==
    /\ Idle
    /\ \E file \in TxtFiles, cap \in Caps, env \in Envs({}) :
        /\ IsShort(file)
        /\ Returns("txt", file, ProcessingOptions(cap, TRUE), env,
                   TXT_extract_text(file, ProcessingOptions(cap, TRUE), env))

PdfExtract ==
    /\ Idle
    /\ \E file \in PdfFiles, cap \in Caps, extract_tables \in BOOLEAN,
       env \in Envs({Some("fallback error")}) :
        /\ IsShort(file)
        /\ Returns("pdf", file, ProcessingOptions(cap, extract_tables), env,
                   PDF_extract_text(file, ProcessingOptions(cap, extract_tables), env))

DocxExtract ==
    /\ Idle
    /\ \E file \in DocxFiles, cap \in Caps, env \in Envs({}) :
        /\ IsShort(file)
        /\ Returns("docx", file, ProcessingOptions(cap, TRUE), env,
                   DOCX_extract_text(file, ProcessingOptions(cap, TRUE), env))

\* the pre-validation query, on a path that exists or not
IsSupportedFile ==
    /\ Idle
    /\ \E file \in QueryFiles, goneAt \in {0, 7} :
        /\ call' = Call("is_supported_file", file, ProcessingOptions(None, TRUE),
                        [goneAt |-> goneAt, err1 |-> None, err2 |-> None])
        /\ answer' = Answer("is_supported_file", DocParseEngine_is_supported_file(file))
        /\ UNCHANGED <<result, trace>>
        /\ UNCHANGED rate_vars

\* the caller serialises or discards the result; nothing outlives the call
Discard ==
    /\ call.op # "none"
    /\ call' = NoCall
    /\ result' = NoResult
    /\ trace' = [pages_text |-> None, invoked |-> <<>>]
    /\ answer' = NoAnswer
    /\ UNCHANGED rate_vars

Next ==
    \/ EngineExtractTxt
    \/ EngineExtractPdf
    \/ EngineExtractDocx
    \/ EngineExtractOther
    \/ TxtExtract
    \/ PdfExtract
    \/ DocxExtract
    \/ IsSupportedFile
    \/ Discard

Spec == Init /\ [][Next]_vars

(***************************************************************************)
(* The rate limiter of the upload route (app.py:84-130).                   *)
(***************************************************************************)
\* check_rate_limit that records the request before it tests the limit
check_rate_limit_RecordsRejected(counts, ip, t) ==
    LET minute_ago == t - Minute
        kept == SelectSeq(counts[ip], LAMBDA req_time : req_time > minute_ago)
    IN [request_counts |-> [counts EXCEPT ![ip] = Append(kept, t)],
        value |-> Len(kept) < RATE_LIMIT]

\* check_rate_limit(client_ip) called at instant t on the table counts: the
\* table it leaves and the value it returns
check_rate_limit(counts, ip, t) ==
    LET minute_ago == t - Minute
        kept == SelectSeq(counts[ip], LAMBDA req_time : req_time > minute_ago)
    IN IF Len(kept) >= RATE_LIMIT
       THEN [request_counts |-> [counts EXCEPT ![ip] = kept], value |-> FALSE]
       ELSE [request_counts |-> [counts EXCEPT ![ip] = Append(kept, t)], value |-> TRUE]

\* one call of check_rate_limit, by any client
CheckRateLimit ==
    \E ip \in ClientIps :
        LET out == check_rate_limit(request_counts, ip, now)
        IN /\ request_counts' = out.request_counts
           /\ answer' = Answer("check_rate_limit", out.value)
           /\ client_ip' = ip
           /\ accepted' = IF out.value THEN [accepted EXCEPT ![ip] = Append(@, now)]
                           ELSE accepted
           /\ UNCHANGED <<now, call, result, trace>>

\* the clock advances; the value of the last call has been consumed
Tick ==
    /\ now < MaxTime
    /\ now' = now + 1
    /\ answer' = NoAnswer
    /\ client_ip' = ""
    /\ UNCHANGED <<request_counts, accepted, call, result, trace>>

RateNext ==
    \/ CheckRateLimit
    \/ Tick

RateSpec == Init /\ [][RateNext]_vars

(***************************************************************************)
(* Vocabulary of the properties.                                           *)
(***************************************************************************)
\* a call has ended by returning an ExtractionResult
Returned == result.status = "returned"

\* the call was made through DocParseEngine.extract_text
ByEngine == call.op = "engine"

\* max_pages is set and positive
Capped == call.options.max_pages # None /\ call.options.max_pages[1] > 0

\* the strategy whose result this is: the document type it stamps
Strategy == result.metadata.document_type

\* the number of pages the strategy identified before truncation: the PDF's
\* pages, or the chunks the segmentation returned
Identified ==
    IF Strategy = PDF THEN Len(call.file.pdf) ELSE Len(trace.pages_text[1])

\* the untrimmed text of the i-th logical page of the document
LogicalPage(i) ==
    IF Strategy = PDF
    THEN (IF call.file.pdf[i].text = None THEN <<>> ELSE call.file.pdf[i].text[1])
    ELSE trace.pages_text[1][i]

\* t has no leading and no trailing whitespace
Trimmed(t) == t = <<>> \/ (~IsSpace(t[1]) /\ ~IsSpace(t[Len(t)]))

\* the number of whitespace-separated tokens of t: the places where one starts
TokenCount(t) ==
    Cardinality({i \in 1..Len(t) : ~IsSpace(t[i]) /\ (i = 1 \/ IsSpace(t[i - 1]))})

(***************************************************************************)
(* C1: every result DocParseEngine.extract_text returns has                *)
(* success == false exactly when pages == []: a failure carries no page    *)
(* and a success carries at least one.                                     *)
(* The code breaks it: the TXT segmentation returns no chunk at all for a  *)
(* content made of form feeds, and the result is a success without pages.  *)
(***************************************************************************)
C1_SuccessIffPages ==
    (ByEngine /\ Returned) => (result.success = FALSE <=> result.pages = <<>>)

(***************************************************************************)
(* C2: every result DocParseEngine.extract_text returns, on every return   *)
(* path, has success == true exactly when error_message is null.           *)
(***************************************************************************)
C2_SuccessIffNoError ==
    (ByEngine /\ Returned) => (result.success = TRUE <=> result.error_message = None)

\* witness: the engine returned the failure of a PDF whose two backends raised
C2_Witness ==
    /\ ByEngine /\ Returned
    /\ trace.invoked = <<"pdf", PDFPLUMBER, PYMUPDF>>
    /\ ~result.success
    /\ result.error_message = Some(<<"PDF extraction failed: ", "primary error">>)

(***************************************************************************)
(* C3: every failure result, of the engine or of a strategy, has           *)
(* pages == [], pages_processed == 0 and extraction_method == "failed",    *)
(* and no success result carries extraction_method == "failed".            *)
(***************************************************************************)
C3_FailureShape ==
    Returned =>
        /\ ~result.success =>
               /\ result.pages = <<>>
               /\ result.metadata.pages_processed = 0
               /\ result.metadata.extraction_method = FAILED
        /\ result.success => result.metadata.extraction_method # FAILED

\* witness: a strategy called directly returned a failure
C3_Witness ==
    /\ call.op = "txt" /\ Returned /\ ~result.success
    /\ result.metadata.extraction_method = FAILED
    /\ call.env.err1 # None

(***************************************************************************)
(* C4: in every PageContent a strategy produces, text has no leading or    *)
(* trailing whitespace, word_count == 0 exactly when text == "",           *)
(* word_count is the number of whitespace-separated tokens of text, and    *)
(* character_count == len(text).                                           *)
(***************************************************************************)
C4_PageCounts ==
    Returned =>
        \A i \in DOMAIN result.pages :
            LET p == result.pages[i]
            IN /\ Trimmed(p.text)
               /\ p.word_count = 0 <=> p.text = <<>>
               /\ p.word_count = TokenCount(p.text)
               /\ p.character_count = Len(p.text)

\* witness: a PDF page whose raw text has whitespace around two words
C4_Witness ==
    /\ Returned /\ result.success /\ Strategy = PDF
    /\ Len(result.pages) = 2
    /\ call.file.pdf[1].text = Some(<<" ", "a", NL>>)
    /\ result.pages[1].text = <<"a">> /\ result.pages[1].word_count = 1
    /\ result.pages[2].text = <<"a", " ", "a">> /\ result.pages[2].word_count = 2

(***************************************************************************)
(* C5: in every successful result of a strategy, total_pages is the number *)
(* of pages the strategy identified before truncation, and pages_processed *)
(* is min(max_pages, total_pages) when max_pages is set and positive, and  *)
(* total_pages when max_pages is unset.                                    *)
(***************************************************************************)
C5_PagesProcessed ==
    (Returned /\ result.success) =>
        /\ result.metadata.total_pages = Identified
        /\ Capped => result.metadata.pages_processed =
                         Min(call.options.max_pages[1], result.metadata.total_pages)
        /\ call.options.max_pages = None =>
               result.metadata.pages_processed = result.metadata.total_pages

\* witness: max_pages = 1 against a PDF of more pages
C5_Witness ==
    /\ Returned /\ result.success /\ Strategy = PDF
    /\ call.options.max_pages = Some(1)
    /\ result.metadata.total_pages = MaxPdfPages
    /\ result.metadata.pages_processed = 1
    /\ Len(result.pages) = 1

\* the pages the same call returns with max_pages unset
UncappedPages ==
    LET options == ProcessingOptions(None, call.options.extract_tables)
    IN CASE call.op = "engine" -> DocParseEngine_extract_text(call.file, options, call.env).res.pages
         [] call.op = "txt" -> TXT_extract_text(call.file, options, call.env).res.pages
         [] call.op = "pdf" -> PDF_extract_text(call.file, options, call.env).res.pages
         [] call.op = "docx" -> DOCX_extract_text(call.file, options, call.env).res.pages

(***************************************************************************)
(* C6: every result of a strategy has exactly pages_processed pages, the   *)
(* i-th has page_number == i, and they are the first pages_processed       *)
(* logical pages of the document in document order: a prefix of what the   *)
(* same call returns uncapped.                                             *)
(***************************************************************************)
C6_PagesInOrder ==
    Returned =>
        /\ Len(result.pages) = result.metadata.pages_processed
        /\ \A i \in DOMAIN result.pages :
               /\ result.pages[i].page_number = i
               /\ i <= Identified
               /\ result.pages[i].text = Strip(LogicalPage(i))
        /\ Len(result.pages) <= Len(UncappedPages)
        /\ result.pages = SubSeq(UncappedPages, 1, Len(result.pages))

\* witness: a capped TXT extraction returned the first two of three chunks
C6_Witness ==
    /\ Returned /\ result.success /\ Strategy = TXT
    /\ call.options.max_pages = Some(2)
    /\ Len(trace.pages_text[1]) = 3
    /\ Len(result.pages) = 2
    /\ result.pages[2].page_number = 2

(***************************************************************************)
(* The segmentation as the specification words it, from the places where   *)
(* the content is cut.                                                     *)
(***************************************************************************)
\* the TXT content of the call and the chunks its segmentation returned
Content == call.file.content

Chunks == trace.pages_text[1]

\* TXTProcessor._split_into_pages ran in this call
Segmented == Returned /\ Strategy = TXT /\ trace.pages_text # None

\* s holds a character that is not whitespace
HasInk(s) == \E i \in 1..Len(s) : ~IsSpace(s[i])

\* the places of the form feeds
FormFeedCuts(s) == {i \in 1..Len(s) : s[i] = FF}

\* the first place of the run of newlines that i lies in
NewlineRunStart(s, i) ==
    CHOOSE j \in 1..i : (\A k \in j..i : s[k] = NL) /\ (j = 1 \/ s[j - 1] # NL)

\* the places where a triple newline is cut out: every third of a run
TripleNewlineCuts(s) ==
    {i \in 1..(Len(s) - 2) :
        /\ s[i] = NL /\ s[i + 1] = NL /\ s[i + 2] = NL
        /\ (i - NewlineRunStart(s, i)) % 3 = 0}

\* the n-th smallest element of cuts
NthCut(cuts, n) == CHOOSE c \in cuts : Cardinality({d \in cuts : d < c}) = n - 1

\* the pieces of s between delimiters of length k cut out at cuts
Pieces(s, cuts, k) ==
    LET n == Cardinality(cuts)
    IN [j \in 1..(n + 1) |->
           SubSeq(s, IF j = 1 THEN 1 ELSE NthCut(cuts, j - 1) + k,
                     IF j = n + 1 THEN Len(s) ELSE NthCut(cuts, j) - 1)]

NonBlankPieces(s, cuts, k) == SelectSeq(Pieces(s, cuts, k), HasInk)

\* ceil(a / b)
CeilDiv(a, b) == (a + b - 1) \div b

\* s in windows of PageSize characters
FixedWindows(s) ==
    [k \in 1..CeilDiv(Len(s), PageSize) |->
        SubSeq(s, (k - 1) * PageSize + 1, Min(k * PageSize, Len(s)))]

\* the four steps in their order, each split used only if it yields more than
\* one non-blank chunk
SegmentationSteps(s) ==
    LET ff == NonBlankPieces(s, FormFeedCuts(s), 1)
        nl == NonBlankPieces(s, TripleNewlineCuts(s), 3)
    IN IF Len(ff) > 1 THEN ff
       ELSE IF Len(nl) > 1 THEN nl
       ELSE IF Len(s) > PageSize THEN FixedWindows(s)
       ELSE IF HasInk(s) THEN <<s>> ELSE << <<>> >>

\* the concatenation of the chunks
RECURSIVE Concat(_)
Concat(chunks) == IF chunks = <<>> THEN <<>> ELSE Head(chunks) \o Concat(Tail(chunks))

(***************************************************************************)
(* C7: the TXT segmentation uses the form-feed split only if it yields     *)
(* more than one non-blank chunk, else the triple-newline split under the  *)
(* same condition, else fixed windows when the content is longer than one  *)
(* window, else the whole content as one chunk.                            *)
(* The code breaks it: it takes the form-feed split whenever the content   *)
(* holds a form feed, before the blank pieces are dropped.                 *)
(***************************************************************************)
C7_SegmentationOrder == Segmented => Chunks = SegmentationSteps(Content)

(***************************************************************************)
(* C8: the TXT segmentation never returns an empty sequence of chunks, and *)
(* for a blank content of at most one window it returns exactly one empty  *)
(* chunk, so that the TXT strategy succeeds with total_pages == 1 and one  *)
(* page of text "".                                                        *)
(* The code breaks it: a blank content that holds a form feed or a triple  *)
(* newline is split, and every piece is dropped.                           *)
(***************************************************************************)
C8_BlankContentOneEmptyChunk ==
    Segmented =>
        /\ Chunks # <<>>
        /\ (~HasInk(Content) /\ Len(Content) <= PageSize) =>
               /\ Chunks = << <<>> >>
               /\ result.success =>
                      /\ result.metadata.total_pages = 1
                      /\ Len(result.pages) = 1
                      /\ result.pages[1].text = <<>>

(***************************************************************************)
(* C9: for a TXT content longer than one window, with no form feed and no  *)
(* run of three newlines, the segmentation returns ceil(L / window)        *)
(* chunks, each but the last one window long, blank windows included, and  *)
(* their concatenation is the content.                                     *)
(***************************************************************************)
C9_FixedWindows ==
    (/\ Segmented
     /\ Len(Content) > PageSize
     /\ FormFeedCuts(Content) = {}
     /\ TripleNewlineCuts(Content) = {}) =>
        /\ Len(Chunks) = CeilDiv(Len(Content), PageSize)
        /\ \A k \in 1..(Len(Chunks) - 1) : Len(Chunks[k]) = PageSize
        /\ Len(Chunks[Len(Chunks)]) \in 1..PageSize
        /\ Concat(Chunks) = Content

\* witness: three windows, the middle one blank and kept
C9_Witness ==
    /\ Segmented /\ result.success
    /\ Len(Content) > 2 * PageSize
    /\ FormFeedCuts(Content) = {}
    /\ TripleNewlineCuts(Content) = {}
    /\ Len(Chunks) = 3
    /\ ~HasInk(Chunks[2])
    /\ HasInk(Chunks[1]) /\ HasInk(Chunks[3])

(***************************************************************************)
(* C10: when the segmentation uses the form-feed split or the triple-      *)
(* newline split, the chunks are the non-blank pieces of the content in    *)
(* their order, re-joining them with the delimiter gives the content       *)
(* without its blank pieces, and total_pages is the number of non-blank    *)
(* pieces.                                                                 *)
(***************************************************************************)
C10_NonBlankPieces ==
    Segmented =>
        LET branch == SplitBranch(Content)
            cuts == IF branch = "form_feed" THEN FormFeedCuts(Content)
                    ELSE TripleNewlineCuts(Content)
            sep == IF branch = "form_feed" THEN <<FF>> ELSE NL3
            kept == NonBlankPieces(Content, cuts, Len(sep))
        IN branch \in {"form_feed", "triple_newline"} =>
               /\ Chunks = kept
               /\ \A k \in 1..Len(Chunks) : HasInk(Chunks[k])
               /\ Join(Pieces(Content, cuts, Len(sep)), sep) = Content
               /\ Join(Chunks, sep) = Join(kept, sep)
               /\ result.success => result.metadata.total_pages = Len(kept)

\* witness: "a\f\fa" gives the two pages "a" and "a"
C10_Witness ==
    /\ Segmented /\ result.success
    /\ Content = <<"a", FF, FF, "a">>
    /\ call.options.max_pages = None
    /\ result.metadata.total_pages = 2
    /\ result.pages[1].text = <<"a">>
    /\ result.pages[2].text = <<"a">>

(***************************************************************************)
(* Vocabulary of the PDF properties.                                       *)
(***************************************************************************)
\* PDFProcessor.extract_text ran in this call
PdfCall == trace.invoked # <<>> /\ trace.invoked[1] = "pdf"

\* the primary backend raised in this call
PrimaryRaised == PdfplumberError(call.env) # None

\* the fallback backend raised in this call
FallbackRaised == PymupdfError(call.env) # None

\* the steps of the call that attempted the backend named tag
Attempts(tag) == {i \in DOMAIN trace.invoked : trace.invoked[i] = tag}

(***************************************************************************)
(* C11: in PDFProcessor.extract_text the fallback backend is attempted     *)
(* only after the primary backend has raised in the same call, never when  *)
(* the primary succeeded; when the primary raises and the fallback         *)
(* succeeds the result is a success tagged "pymupdf" whose pages all have  *)
(* tables_count == 0 and tables == [], whatever extract_tables is.         *)
(***************************************************************************)
C11_FallbackAfterPrimary ==
    PdfCall =>
        /\ Attempts(PYMUPDF) # {} => PrimaryRaised
        /\ \A j \in Attempts(PYMUPDF) : \E i \in Attempts(PDFPLUMBER) : i < j
        /\ Cardinality(Attempts(PDFPLUMBER)) = 1
        /\ Cardinality(Attempts(PYMUPDF)) <= 1
        /\ ~PrimaryRaised =>
               Returned /\ result.metadata.extraction_method = PDFPLUMBER
        /\ (PrimaryRaised /\ ~FallbackRaised) =>
               /\ Returned /\ result.success
               /\ result.metadata.extraction_method = PYMUPDF
               /\ Len(result.pages) = PagesToProcess(call.options, Len(call.file.pdf))
               /\ \A i \in DOMAIN result.pages :
                      /\ result.pages[i].tables_count = 0
                      /\ result.pages[i].tables = <<>>

\* witness: the fallback extracted a page on which pdfplumber would have
\* found a table, with extract_tables set
C11_Witness ==
    /\ PdfCall /\ Returned /\ result.success
    /\ call.env.err1 # None
    /\ call.options.extract_tables
    /\ Len(result.pages) = 1
    /\ call.file.pdf[1].tables # <<>>
    /\ result.metadata.extraction_method = PYMUPDF
    /\ result.pages[1].tables_count = 0

\* the parts of the error message of the result
MessageParts == {result.error_message[1][i] : i \in DOMAIN result.error_message[1]}

\* the result of a PDF call whose two backends raised: a failure that
\* surfaces the primary's description and not the fallback's
DoubleFailureShape ==
    /\ ~result.success
    /\ result.pages = <<>>
    /\ result.metadata.extraction_method = FAILED
    /\ result.error_message =
           Some(<<"PDF extraction failed: ", PdfplumberError(call.env)[1]>>)
    /\ PymupdfError(call.env)[1] # PdfplumberError(call.env)[1] =>
           PymupdfError(call.env)[1] \notin MessageParts

(***************************************************************************)
(* C12: when both PDF backends raise, PDFProcessor.extract_text returns a  *)
(* failure result with pages == [], extraction_method == "failed" and an   *)
(* error_message that carries the primary failure's description and        *)
(* nothing of the fallback's.                                              *)
(* The code breaks it when the file is removed between the exists() and    *)
(* the stat() of _create_error_metadata: the call raises instead of        *)
(* returning (the escape of C17).                                          *)
(***************************************************************************)
C12_DoubleFailure ==
    (PdfCall /\ PrimaryRaised /\ FallbackRaised) => (Returned /\ DoubleFailureShape)

(***************************************************************************)
(* C13: for a path that does not reference an existing file, whatever its  *)
(* extension, DocParseEngine.extract_text returns a failure result with    *)
(* error_message == "File not found", document_type == "unknown",          *)
(* file_size == 0, total_pages == 0 and processing_time == 0, and no       *)
(* strategy is invoked.                                                    *)
(***************************************************************************)
C13_FileNotFound ==
    (ByEngine /\ ~Present(call.env, 0)) =>
        /\ Returned /\ ~result.success
        /\ result.pages = <<>>
        /\ result.error_message = Some(<<"File not found">>)
        /\ result.metadata.document_type = <<"u", "n", "k", "n", "o", "w", "n">>
        /\ result.metadata.file_size = 0
        /\ result.metadata.total_pages = 0
        /\ result.metadata.processing_time = "0.0"
        /\ result.metadata.filename = Name(call.file)
        /\ trace.invoked = <<>>

\* witness: a missing path with a registered extension
C13_Witness ==
    /\ ByEngine /\ Returned
    /\ call.env.goneAt = 0
    /\ Extension(call.file) = PDF
    /\ result.error_message = Some(<<"File not found">>)

(***************************************************************************)
(* C14: for an existing file whose extension, compared case-insensitively, *)
(* is not pdf, txt or docx (a file with no extension included),            *)
(* DocParseEngine.extract_text returns a failure result whose              *)
(* metadata.document_type is the file's extension, and no strategy is      *)
(* invoked.  The extension is taken as the code and the end-to-end example *)
(* of the specification take it ("report.xyz" gives "xyz"): without the    *)
(* dot; the code also lower-cases it.  The code breaks the claim when the  *)
(* file is removed between exists() and the unguarded stat() of the        *)
(* unsupported-type return: the call raises.                               *)
(***************************************************************************)
Unsupported == Extension(call.file) \notin DocumentType

C14_UnsupportedType ==
    (ByEngine /\ Present(call.env, 0) /\ Unsupported) =>
        /\ Returned /\ ~result.success
        /\ result.pages = <<>>
        /\ result.metadata.document_type = Extension(call.file)
        /\ trace.invoked = <<>>

(***************************************************************************)
(* C15: for an existing file with a registered extension,                  *)
(* DocParseEngine.extract_text invokes exactly one strategy, exactly once, *)
(* the one that owns the extension (pdf: PDFProcessor, txt: TXTProcessor,  *)
(* docx: DOCXProcessor, whatever the letter case); what the call hands     *)
(* back is what that strategy handed back, success or failure, and no      *)
(* other format's strategy runs after a failure.                           *)
(***************************************************************************)
StrategyTags == {"pdf", "txt", "docx"}

\* the positions of trace.invoked at which a strategy's extract_text began
Invocations == {i \in DOMAIN trace.invoked : trace.invoked[i] \in StrategyTags}

\* the strategy registered for an extension at construction
Owner(extension) ==
    CASE extension = PDF -> "pdf"
      [] extension = TXT -> "txt"
      [] extension = DOCX -> "docx"

\* what the owning strategy, called on its own, hands back
OwnOutcome ==
    CASE Extension(call.file) = PDF -> PDF_extract_text(call.file, call.options, call.env)
      [] Extension(call.file) = TXT -> TXT_extract_text(call.file, call.options, call.env)
      [] Extension(call.file) = DOCX -> DOCX_extract_text(call.file, call.options, call.env)

C15_OneOwningStrategy ==
    (ByEngine /\ Present(call.env, 0) /\ ~Unsupported) =>
        /\ Cardinality(Invocations) = 1
        /\ trace.invoked[1] = Owner(Extension(call.file))
        /\ result = OwnOutcome.res
        /\ Returned => result.metadata.document_type = Extension(call.file)

\* witness: a failed extraction of a PDF with an upper-case suffix, handed
\* back as the PDF strategy left it
C15_Witness ==
    /\ ByEngine /\ Returned /\ ~result.success
    /\ call.file.suffix = Dot(<<"P", "d", "F">>)
    /\ call.env.goneAt = 7
    /\ trace.invoked = <<"pdf", PDFPLUMBER, PYMUPDF>>
    /\ result.metadata.document_type = PDF

(***************************************************************************)
(* C16: DocParseEngine.is_supported_file(path) returns true exactly when   *)
(* the path's extension, compared without regard to letter case, is one of *)
(* pdf, txt, docx, whether the file exists or not.  It agrees with         *)
(* dispatch: on an existing file extract_text invokes a strategy if and    *)
(* only if is_supported_file is true of the file, and the invoked          *)
(* strategy's own supports_file_type accepts the file.                     *)
(***************************************************************************)
\* the suffix is a dot followed by a registered extension in some letter case
RegisteredSuffix(file) == \E e \in {PDF, TXT, DOCX} : Lower(file.suffix) = <<".">> \o e

\* supports_file_type of the strategy that ran
InvokedSupports ==
    CASE trace.invoked[1] = "pdf" -> PDF_supports_file_type(call.file)
      [] trace.invoked[1] = "txt" -> TXT_supports_file_type(call.file)
      [] trace.invoked[1] = "docx" -> DOCX_supports_file_type(call.file)

C16_SupportedAgreesWithDispatch ==
    /\ answer.by = "is_supported_file" => (answer.value <=> RegisteredSuffix(call.file))
    /\ (ByEngine /\ Present(call.env, 0)) =>
           /\ (trace.invoked # <<>>) <=> DocParseEngine_is_supported_file(call.file)
           /\ trace.invoked # <<>> => InvokedSupports

\* witness: a path that does not exist, with a registered extension in
\* mixed case, is reported as supported
C16_Witness ==
    /\ answer.by = "is_supported_file" /\ answer.value
    /\ call.env.goneAt = 0
    /\ call.file.suffix = Dot(<<"P", "d", "F">>)

(***************************************************************************)
(* C17: DocParseEngine.extract_text never lets an error escape: for every  *)
(* path and options, also when another actor removes the file at any point *)
(* of the call (between the existence test and a later size query or open, *)
(* or inside a strategy's error handler), the call returns an              *)
(* ExtractionResult, and one with success == false when the file was gone  *)
(* before it could be opened.  The code breaks it: the stat() of the       *)
(* unsupported-type return and the stat() of every _create_error_metadata  *)
(* are outside any try block.                                              *)
(***************************************************************************)
C17_NoEscape ==
    ByEngine =>
        /\ result.status = "returned"
        /\ ~Present(call.env, 1) => ~result.success /\ result.error_message # None

(***************************************************************************)
(* Vocabulary of the DOCX grouping.                                        *)
(***************************************************************************)
\* the DOCX strategy ran and its grouping returned
DocxGrouped == trace.invoked = <<"docx">> /\ trace.pages_text # None

\* the positions at which a maximal run of non-blank paragraphs begins
RunStarts ==
    {a \in DOMAIN call.file.paras :
        /\ NonBlank(call.file.paras[a])
        /\ a = 1 \/ ~NonBlank(call.file.paras[a - 1])}

\* the position at which the run that begins at a ends
RunEnd(a) ==
    CHOOSE b \in a..Len(call.file.paras) :
        /\ \A i \in a..b : NonBlank(call.file.paras[i])
        /\ b = Len(call.file.paras) \/ ~NonBlank(call.file.paras[b + 1])

\* the rank of the run that begins at a, in document order
RunIndex(a) == Cardinality({s \in RunStarts : s <= a})

\* the paragraphs of the run that begins at a, each taken through Text,
\* joined with a newline
JoinedRun(a, Text(_)) ==
    Join([i \in 1..(RunEnd(a) - a + 1) |-> Text(call.file.paras[a + i - 1])], <<NL>>)

\* a paragraph's text as it is written in the document
AsWritten(t) == t

\* one page per maximal run, in order; one empty page when there is no run
GroupedByRuns(Text(_)) ==
    LET pages == trace.pages_text[1]
    IN /\ Len(pages) >= 1
       /\ IF RunStarts = {} THEN pages = << <<>> >>
          ELSE /\ Len(pages) = Cardinality(RunStarts)
               /\ \A a \in RunStarts : pages[RunIndex(a)] = JoinedRun(a, Text)
               /\ \A i \in DOMAIN pages : pages[i] # <<>>

(***************************************************************************)
(* C18 as stated: the DOCX grouping returns, in document order, one page   *)
(* per maximal run of consecutive non-blank paragraphs, the page being the *)
(* run's paragraph texts joined with a newline; blank paragraphs yield no  *)
(* page; there is at least one page, none empty when the document has a    *)
(* non-blank paragraph, and exactly one empty page otherwise.  The code    *)
(* refutes it: a paragraph text enters its page stripped.                  *)
(***************************************************************************)
C18_RunsOfParagraphTexts == DocxGrouped => GroupedByRuns(AsWritten)

(***************************************************************************)
(* C18 amended: the same, each page being the newline-join of its run's    *)
(* paragraph texts each trimmed of leading and trailing whitespace.        *)
(***************************************************************************)
C18_RunsOfTrimmedTexts == DocxGrouped => GroupedByRuns(Strip)

\* witness: two runs separated by a blank paragraph, the first of two
\* paragraphs of which one carries surrounding whitespace
C18_Witness ==
    /\ DocxGrouped
    /\ call.file.paras = << <<" ", "a", NL>>, <<"a">>, <<" ">>, <<"a">> >>
    /\ trace.pages_text[1] = << <<"a", NL, "a">>, <<"a">> >>

(***************************************************************************)
(* Vocabulary of the rate limit.                                           *)
(***************************************************************************)
\* the accepted calls of ip at the instants from..to
AcceptedIn(ip, from, to) ==
    {i \in DOMAIN accepted[ip] : from <= accepted[ip][i] /\ accepted[ip][i] <= to}

\* the accepted calls of the client just answered that came before its call
Earlier ==
    IF answer.value THEN 1..(Len(accepted[client_ip]) - 1)
    ELSE DOMAIN accepted[client_ip]

\* those of them made in the last minute: after now - Minute
EarlierInLastMinute == Earlier \cap AcceptedIn(client_ip, now - Minute + 1, now)

\* seq is what is left of whole after dropping its oldest elements
IsSuffix(seq, whole) ==
    /\ Len(seq) <= Len(whole)
    /\ seq = SubSeq(whole, Len(whole) - Len(seq) + 1, Len(whole))

(***************************************************************************)
(* C19: after any sequence of check_rate_limit calls, for every client IP  *)
(* the calls that returned true within any window of one minute (a window  *)
(* of Minute instants s .. s + Minute - 1: one end is excluded) number at  *)
(* most RATE_LIMIT; a call that returns false is not recorded, so the table*)
(* holds accepted calls only and a rejected call does not prolong the      *)
(* block; a call's outcome depends on its own client's accepted calls      *)
(* only: it is true exactly when fewer than RATE_LIMIT of them were made   *)
(* in the last minute, whatever the other clients did; and a client with   *)
(* no accepted call in the last minute is accepted.                        *)
(***************************************************************************)
C19_RateLimit ==
    /\ \A ip \in ClientIps : \A s \in (0 - Minute)..MaxTime :
           Cardinality(AcceptedIn(ip, s, s + Minute - 1)) <= RATE_LIMIT
    /\ \A ip \in ClientIps : IsSuffix(request_counts[ip], accepted[ip])
    /\ answer.by = "check_rate_limit" =>
           /\ answer.value <=> Cardinality(EarlierInLastMinute) < RATE_LIMIT
           /\ EarlierInLastMinute = {} => answer.value

\* witness: a client that reached the limit, was accepted again once the
\* minute had passed, and is rejected at the limit again, while the other
\* client has been accepted in between
C19_Witness ==
    /\ answer.by = "check_rate_limit" /\ ~answer.value
    /\ Len(accepted[client_ip]) > RATE_LIMIT
    /\ \E ip \in ClientIps \ {client_ip} : accepted[ip] # <<>>

=============================================================================
